---- MODULE Spec2Model ----
(***************************************************************************)
(* Model of the olap_engine query core: the operator tree of plan.rs       *)
(* (Scan, Project, Filter, Aggregate) and the SQL-to-plan translation of   *)
(* sql.rs, over the column store of table.rs.                              *)
(*                                                                         *)
(* Text values (Rust String) are sequences of one-character strings, so    *)
(* that str::parse::<f64> and f64::to_string are computed, not assumed.    *)
(* Column names are only ever compared, hashed and cloned by the code, so  *)
(* they are TLA+ strings.  A HashMap is a function on its key set; every   *)
(* place where the code depends on HashMap iteration order is a            *)
(* nondeterministic choice.                                                *)
(***************************************************************************)
EXTENDS Integers, Sequences, FiniteSets, TLC

VARIABLES
    table,        \* Table.columns: column name -> Column.data
    query,        \* the parsed statement handed to parse_sql_to_plan, or NoQuery
    plan,         \* the PlanNode chain, leaf (Scan) first, outermost node last
    pc,           \* number of nodes of the chain whose execute has returned
    input_chunk,  \* the child's chunk received by the node that ran last
    chunk,        \* the chunk returned by the node that ran last
    status        \* "translating", "executing", "done", "panicked", "unimplemented"

vars == <<table, query, plan, pc, input_chunk, chunk, status>>

----------------------------------------------------------------------------
(* Bounds *)

\* Largest number of rows of a store column.
MaxRows == 2

\* Largest length of a Project name list and of a group-by list.
MaxCols == 2

\* Largest number of (target column, function) pairs of an Aggregate node.
MaxAggs == 2

----------------------------------------------------------------------------
(* Text *)

Digits == {"0", "1", "2", "3", "4", "5", "6", "7", "8", "9"}

DigitValue(c) ==
    CASE c = "0" -> 0 [] c = "1" -> 1 [] c = "2" -> 2 [] c = "3" -> 3
      [] c = "4" -> 4 [] c = "5" -> 5 [] c = "6" -> 6 [] c = "7" -> 7
      [] c = "8" -> 8 [] c = "9" -> 9

DigitChar(d) ==
    CASE d = 0 -> "0" [] d = 1 -> "1" [] d = 2 -> "2" [] d = 3 -> "3"
      [] d = 4 -> "4" [] d = 5 -> "5" [] d = 6 -> "6" [] d = 7 -> "7"
      [] d = 8 -> "8" [] d = 9 -> "9"

RECURSIVE DecimalValue(_)
DecimalValue(s) ==
    IF s = <<>> THEN 0
    ELSE 10 * DecimalValue(SubSeq(s, 1, Len(s) - 1)) + DigitValue(s[Len(s)])

\* val.parse::<f64>() on the texts of the model: an optional sign followed by
\* one or more decimal digits parses to that integer; the empty text, a lone
\* sign and any text holding another character is Err.  (Fractions, exponents,
\* "inf" and "nan" also parse in Rust; no text of the model has that form.)
ParseF64(s) ==
    LET signed == Len(s) > 0 /\ s[1] \in {"+", "-"}
        body   == IF signed THEN Tail(s) ELSE s
        ok     == body # <<>> /\ \A i \in 1..Len(body) : body[i] \in Digits
    IN  [ok |-> ok,
         v  |-> IF ~ok THEN 0
                ELSE IF signed /\ s[1] = "-" THEN 0 - DecimalValue(body)
                ELSE DecimalValue(body)]

RECURSIVE NatToString(_)
NatToString(n) ==
    IF n < 10 THEN <<DigitChar(n)>>
    ELSE Append(NatToString(n \div 10), DigitChar(n % 10))

\* f64::to_string of an integer-valued f64: no fraction part is printed.
F64ToString(x) ==
    IF x < 0 THEN <<"-">> \o NatToString(0 - x) ELSE NatToString(x)

----------------------------------------------------------------------------
(* Data model *)

\* An empty HashMap.
EmptyMap == [c \in {} |-> <<>>]

SeqsUpTo(S, n) == UNION {[1..k -> S] : k \in 0..n}

\* The column names and texts the stores of the model are built from.
Names == {"region", "sales"}

Values == {<<"2">>, <<"-", "1">>, <<"x">>}

\* Table { columns }: any set of columns, of any lengths (the fields are pub).
Tables ==
    UNION {[cols -> SeqsUpTo(Values, MaxRows)] : cols \in SUBSET Names}

\* The DataChunk invariant: all columns have the same length.
EqualLength(ch) ==
    \A a, b \in DOMAIN ch : Len(ch[a]) = Len(ch[b])

----------------------------------------------------------------------------
(* Plan nodes *)

NoPredicate == [kind |-> "none", col |-> "", val |-> <<>>]

ScanNode ==
    [kind |-> "Scan", columns |-> <<>>, predicate |-> NoPredicate,
     group_by |-> <<>>, aggregates |-> <<>>]

ProjectNode(columns) ==
    [kind |-> "Project", columns |-> columns, predicate |-> NoPredicate,
     group_by |-> <<>>, aggregates |-> <<>>]

FilterNode(predicate) ==
    [kind |-> "Filter", columns |-> <<>>, predicate |-> predicate,
     group_by |-> <<>>, aggregates |-> <<>>]

AggregateNode(group_by, aggregates) ==
    [kind |-> "Aggregate", columns |-> <<>>, predicate |-> NoPredicate,
     group_by |-> group_by, aggregates |-> aggregates]

\* Row predicates (Box<dyn Fn(&HashMap<String, String>) -> bool>).
PredTrue == [kind |-> "true", col |-> "", val |-> <<>>]
PredFalse == [kind |-> "false", col |-> "", val |-> <<>>]
PredEq(col, val) == [kind |-> "eq", col |-> col, val |-> val]

\* row[col] panics when the row has no such key.
PredicatePanics(p, row) == p.kind = "eq" /\ p.col \notin DOMAIN row

PredicateHolds(p, row) ==
    CASE p.kind = "true" -> TRUE
      [] p.kind = "false" -> FALSE
      [] p.kind = "eq" -> row[p.col] = p.val

----------------------------------------------------------------------------
(* Operators *)

Panic == [panic |-> TRUE, chunk |-> EmptyMap]
Ok(ch) == [panic |-> FALSE, chunk |-> ch]

\* Mutant of ScanNode_execute: the first row of every column is skipped.
ScanNode_execute_SkipsRow(t) ==
    [name \in DOMAIN t |-> IF t[name] = <<>> THEN <<>> ELSE Tail(t[name])]

\* ScanNode::execute: every column of the table, cloned.
ScanNode_execute(t) == [name \in DOMAIN t |-> t[name]]

\* self.columns.contains(col)
Contains(columns, col) == \E i \in 1..Len(columns) : columns[i] = col

\* Mutant of ProjectNode_execute: only the first requested name is looked at.
ProjectNode_execute_FirstOnly(in, columns) ==
    [col \in {c \in DOMAIN in : columns # <<>> /\ columns[1] = c} |-> in[col]]

\* ProjectNode::execute: the child's columns whose name is in self.columns.
ProjectNode_execute(in, columns) ==
    [col \in {c \in DOMAIN in : Contains(columns, c)} |-> in[col]]

\* input_chunk.values().next().map_or(0, |v| v.len()): the length of whichever
\* column the HashMap iterates first.
NumRowsChoices(in) ==
    IF DOMAIN in = {} THEN {0} ELSE {Len(in[c]) : c \in DOMAIN in}

RECURSIVE FilterLoop(_, _, _, _, _)
FilterLoop(in, predicate, num_rows, i, results) ==
    IF i > num_rows THEN Ok(results)
    ELSE IF \E c \in DOMAIN in : Len(in[c]) < i THEN Panic   \* v[i]
    ELSE LET row == [c \in DOMAIN in |-> in[c][i]]
         IN  IF PredicatePanics(predicate, row) THEN Panic
             ELSE FilterLoop(in, predicate, num_rows, i + 1,
                     IF PredicateHolds(predicate, row)
                     THEN [c \in DOMAIN results |-> Append(results[c], in[c][i])]
                     ELSE results)

\* Mutant of FilterNode_execute: the row loop starts one row late.
FilterNode_execute_OffByOne(in, predicate, num_rows) ==
    FilterLoop(in, predicate, num_rows, 2, [c \in DOMAIN in |-> <<>>])

\* FilterNode::execute, num_rows being the length of the column taken first.
FilterNode_execute(in, predicate, num_rows) ==
    FilterLoop(in, predicate, num_rows, 1, [c \in DOMAIN in |-> <<>>])

\* enum AggregateFunction { Count, Sum }
AggregateFunction == {"Count", "Sum"}

\* The names of a list of (target column, function) pairs.
AggregateNames(aggregates) == {aggregates[j][1] : j \in 1..Len(aggregates)}

\* The closure of or_insert_with: one 0.0 per target name (a HashMap, so two
\* pairs with the same target share one accumulator).
InitEntry(aggregates) == [col \in AggregateNames(aggregates) |-> 0]

\* The loop over self.aggregates for row i, from pair j on.
RECURSIVE AggregateRow(_, _, _, _, _)
AggregateRow(in, aggregates, i, j, entry) ==
    IF j > Len(aggregates) THEN [panic |-> FALSE, entry |-> entry]
    ELSE LET col  == aggregates[j][1]
             func == aggregates[j][2]
         IN  IF col \notin DOMAIN in \/ Len(in[col]) < i
             THEN [panic |-> TRUE, entry |-> entry]        \* input_chunk[col][i]
             ELSE LET val == in[col][i]
                      add == IF func = "Count" THEN 1
                             ELSE IF ParseF64(val).ok THEN ParseF64(val).v
                             ELSE 0
                  IN  AggregateRow(in, aggregates, i, j + 1,
                                   [entry EXCEPT ![col] = @ + add])

\* The loop over the rows: groups maps a group key to its accumulators.
RECURSIVE AggregateLoop(_, _, _, _, _, _)
AggregateLoop(in, group_by, aggregates, num_rows, i, groups) ==
    IF i > num_rows THEN [panic |-> FALSE, groups |-> groups]
    ELSE IF \E j \in 1..Len(group_by) :
                group_by[j] \notin DOMAIN in \/ Len(in[group_by[j]]) < i
    THEN [panic |-> TRUE, groups |-> groups]               \* input_chunk[col][i]
    ELSE LET group_key == [j \in 1..Len(group_by) |-> in[group_by[j]][i]]
             entry == IF group_key \in DOMAIN groups THEN groups[group_key]
                      ELSE InitEntry(aggregates)
             row   == AggregateRow(in, aggregates, i, 1, entry)
         IN  IF row.panic THEN [panic |-> TRUE, groups |-> groups]
             ELSE AggregateLoop(in, group_by, aggregates, num_rows, i + 1,
                     [k \in DOMAIN groups \cup {group_key} |->
                         IF k = group_key THEN row.entry ELSE groups[k]])

AggregateGroups(in, group_by, aggregates, num_rows) ==
    AggregateLoop(in, group_by, aggregates, num_rows, 1,
                  [k \in {} |-> InitEntry(aggregates)])

\* for (i, col) in self.group_by.iter().enumerate(): push key[i] to result[col]
RECURSIVE PushKey(_, _, _, _)
PushKey(result, group_by, key, i) ==
    IF i > Len(group_by) THEN result
    ELSE PushKey([result EXCEPT ![group_by[i]] = Append(@, key[i])],
                 group_by, key, i + 1)

\* for (col, val) in agg_vals: push val.to_string() to result[col]
PushAggregates(result, agg_vals) ==
    [col \in DOMAIN result |->
        IF col \in DOMAIN agg_vals
        THEN Append(result[col], F64ToString(agg_vals[col]))
        ELSE result[col]]

\* for (key, agg_vals) in groups, the groups being visited in the given order.
RECURSIVE EmitGroups(_, _, _, _, _)
EmitGroups(result, group_by, groups, order, n) ==
    IF n > Len(order) THEN result
    ELSE EmitGroups(
            PushAggregates(PushKey(result, group_by, order[n], 1),
                           groups[order[n]]),
            group_by, groups, order, n + 1)

\* The orders in which a HashMap with these keys may be iterated.
IterationOrders(keys) ==
    {o \in [1..Cardinality(keys) -> keys] :
        \A a, b \in 1..Cardinality(keys) : a # b => o[a] # o[b]}

\* The second half of AggregateNode::execute: the result chunk.
AggregateEmit(group_by, aggregates, groups, order) ==
    EmitGroups(
        [col \in {group_by[j] : j \in 1..Len(group_by)}
                    \cup AggregateNames(aggregates) |-> <<>>],
        group_by, groups, order, 1)

----------------------------------------------------------------------------
(* The parsed statement (sqlparser's AST, as far as sql.rs reads it) *)

\* Expr: Identifier(ident), Value(SingleQuotedString(val)), Value(Number),
\* Function, or a BinaryOp whose operands the code never looks into.
Identifier(name) == [kind |-> "Identifier", ident |-> name, val |-> <<>>]
SingleQuotedString(val) ==
    [kind |-> "SingleQuotedString", ident |-> "", val |-> val]
NumberValue(val) == [kind |-> "Number", ident |-> "", val |-> val]
FunctionExpr == [kind |-> "Function", ident |-> "", val |-> <<>>]
NestedBinaryOp == [kind |-> "BinaryOp", ident |-> "", val |-> <<>>]

\* Option<Expr> of the WHERE clause.
NoSelection ==
    [kind |-> "None", left |-> FunctionExpr, op |-> "", right |-> FunctionExpr]
BinaryOp(left, op, right) ==
    [kind |-> "BinaryOp", left |-> left, op |-> op, right |-> right]
OtherSelection ==
    [kind |-> "Function", left |-> FunctionExpr, op |-> "", right |-> FunctionExpr]

\* SelectItem: UnnamedExpr(Identifier), UnnamedExpr(Function), Wildcard.
ItemIdentifier(name) ==
    [kind |-> "Identifier", value |-> name, name |-> "", arg |-> ""]
ItemFunction(name, arg) ==
    [kind |-> "Function", value |-> "", name |-> name, arg |-> arg]

\* Statement: a Query (SELECT), another statement, or text that does not parse.
SelectQuery(projection, selection, group_by) ==
    [kind |-> "Query", projection |-> projection, selection |-> selection,
     group_by |-> group_by]
OtherStatement ==
    [kind |-> "Insert", projection |-> <<>>, selection |-> NoSelection,
     group_by |-> <<>>]
ParseError ==
    [kind |-> "ParseError", projection |-> <<>>, selection |-> NoSelection,
     group_by |-> <<>>]
NoQuery ==
    [kind |-> "none", projection |-> <<>>, selection |-> NoSelection,
     group_by |-> <<>>]

\* func.name.to_string().to_lowercase() on the function names of the model.
ToLowercase(name) ==
    CASE name = "SUM" -> "sum"
      [] name = "COUNT" -> "count"
      [] name = "AVG" -> "avg"
      [] OTHER -> name

\* Mutant of IsEqualityShape: the kind of the right operand is not looked at.
IsEqualityShape_AnyRight(selection) ==
    /\ selection.kind = "BinaryOp"
    /\ selection.left.kind = "Identifier"
    /\ selection.op = "Eq"

\* The WHERE shape sql.rs turns into a Filter:
\* BinaryOp { Identifier, Eq, Value(SingleQuotedString) }.
IsEqualityShape(selection) ==
    /\ selection.kind = "BinaryOp"
    /\ selection.left.kind = "Identifier"
    /\ selection.op = "Eq"
    /\ selection.right.kind = "SingleQuotedString"

\* The aggregates of the SELECT list: one pair per function item, in order.
RECURSIVE CollectAggregates(_, _)
CollectAggregates(projection, n) ==
    IF n > Len(projection) THEN <<>>
    ELSE LET item == projection[n]
             func == ToLowercase(item.name)
             agg  == CASE func = "sum" -> "Sum"
                       [] func = "count" -> "Count"
                       [] func = "avg" -> "Avg"
                       [] OTHER -> "panic"
         IN  IF item.kind = "Function"
             THEN <<<<item.arg, agg>>>> \o CollectAggregates(projection, n + 1)
             ELSE CollectAggregates(projection, n + 1)

\* The plain column identifiers of the SELECT list, in order.
RECURSIVE CollectIdentifiers(_, _)
CollectIdentifiers(projection, n) ==
    IF n > Len(projection) THEN <<>>
    ELSE IF projection[n].kind = "Identifier"
         THEN <<projection[n].value>> \o CollectIdentifiers(projection, n + 1)
         ELSE CollectIdentifiers(projection, n + 1)

\* parse_sql_to_plan: the plan, or a panic (the function returns no Result).
parse_sql_to_plan(q) ==
    LET scan == <<ScanNode>>
        filtered ==
            IF IsEqualityShape(q.selection)
            THEN Append(scan, FilterNode(PredEq(q.selection.left.ident,
                                                q.selection.right.val)))
            ELSE scan
        group_by_cols == [j \in 1..Len(q.group_by) |-> q.group_by[j].ident]
        aggregates == CollectAggregates(q.projection, 1)
        grouped ==
            IF q.group_by # <<>>
            THEN Append(filtered, AggregateNode(group_by_cols, aggregates))
            ELSE filtered
        cols == CollectIdentifiers(q.projection, 1)
        projected ==
            IF cols # <<>> THEN Append(grouped, ProjectNode(cols)) ELSE grouped
    IN  IF q.kind # "Query"
        THEN [panic |-> TRUE, plan |-> <<>>]       \* unwrap / "Only SELECT"
        ELSE IF /\ q.group_by # <<>>
                /\ \/ \E j \in 1..Len(q.group_by) :
                          q.group_by[j].kind # "Identifier"
                   \/ \E j \in 1..Len(aggregates) : aggregates[j][2] = "panic"
        THEN [panic |-> TRUE, plan |-> <<>>]       \* "Unsupported ..."
        ELSE [panic |-> FALSE, plan |-> projected]

----------------------------------------------------------------------------
(* Execution: PlanNode::execute, one step per node of the chain *)

Returned(n) == IF n = Len(plan) THEN "done" ELSE "executing"

Running(kind) ==
    /\ status = "executing"
    /\ pc < Len(plan)
    /\ plan[pc + 1].kind = kind

Panicked ==
    /\ status' = "panicked"
    /\ input_chunk' = chunk
    /\ UNCHANGED <<table, query, plan, pc, chunk>>

Returns(out) ==
    /\ input_chunk' = chunk
    /\ chunk' = out
    /\ pc' = pc + 1
    /\ status' = Returned(pc + 1)
    /\ UNCHANGED <<table, query, plan>>

ExecuteScan ==
    /\ Running("Scan")
    /\ Returns(ScanNode_execute(table))

ExecuteProject ==
    /\ Running("Project")
    /\ Returns(ProjectNode_execute(chunk, plan[pc + 1].columns))

ExecuteFilter ==
    /\ Running("Filter")
    /\ \E num_rows \in NumRowsChoices(chunk) :
          LET r == FilterNode_execute(chunk, plan[pc + 1].predicate, num_rows)
          IN  IF r.panic THEN Panicked ELSE Returns(r.chunk)

ExecuteAggregate ==
    /\ Running("Aggregate")
    /\ LET node == plan[pc + 1]
       IN  IF \E j \in 1..Len(node.aggregates) :
                    node.aggregates[j][2] \notin AggregateFunction
           THEN \* AggregateFunction::Avg: no such variant, no execution
                /\ status' = "unimplemented"
                /\ UNCHANGED <<table, query, plan, pc, input_chunk, chunk>>
           ELSE \E num_rows \in NumRowsChoices(chunk) :
                  LET g == AggregateGroups(chunk, node.group_by,
                                           node.aggregates, num_rows)
                  IN  IF g.panic THEN Panicked
                      ELSE \E order \in IterationOrders(DOMAIN g.groups) :
                              Returns(AggregateEmit(node.group_by,
                                          node.aggregates, g.groups, order))

\* parse_sql_to_plan(query, &table)
ParseSqlToPlan ==
    /\ status = "translating"
    /\ LET r == parse_sql_to_plan(query)
       IN  /\ plan' = r.plan
           /\ status' = IF r.panic THEN "panicked" ELSE "executing"
    /\ UNCHANGED <<table, query, pc, input_chunk, chunk>>

----------------------------------------------------------------------------
(* Inputs *)

\* The stores load_csv builds for a region,sales file: one field per header
\* in every record, so all columns have the same length.
Regions == {<<"E">>, <<"W">>}
Amounts == {<<"2">>, <<"x">>}
CsvTables ==
    UNION {{[region |-> r, sales |-> a] :
                r \in [1..n -> Regions], a \in [1..n -> Amounts]} :
           n \in 0..MaxRows}

Items ==
    {ItemIdentifier("region"), ItemIdentifier("sales"),
     ItemFunction("sum", "sales"), ItemFunction("COUNT", "sales"),
     ItemFunction("COUNT", "*"), ItemFunction("avg", "sales"),
     ItemFunction("max", "sales")}

\* SELECT lists of one or two items.
Projections == {<<i>> : i \in Items} \cup {<<i, j>> : i, j \in Items}

Selections ==
    {NoSelection,
     BinaryOp(Identifier("region"), "Eq", SingleQuotedString(<<"E">>)),
     BinaryOp(Identifier("sales"), "Eq", SingleQuotedString(<<"2">>)),
     BinaryOp(Identifier("city"), "Eq", SingleQuotedString(<<"E">>)),
     BinaryOp(Identifier("region"), "Gt", SingleQuotedString(<<"E">>)),
     BinaryOp(NestedBinaryOp, "And", NestedBinaryOp),
     BinaryOp(Identifier("sales"), "Eq", NumberValue(<<"2">>)),
     BinaryOp(FunctionExpr, "Eq", SingleQuotedString(<<"E">>)),
     OtherSelection}

GroupBys ==
    {<<>>, <<Identifier("region")>>,
     <<Identifier("region"), Identifier("sales")>>, <<FunctionExpr>>}

Queries ==
    {SelectQuery(p, s, g) : p \in Projections, s \in Selections, g \in GroupBys}
        \cup {OtherStatement, ParseError}

Predicates ==
    {PredTrue, PredFalse} \cup {PredEq(c, v) : c \in Names, v \in Values}

\* Group-by lists, and Project lists (which may also name a column no store has).
NameLists == SeqsUpTo(Names, MaxCols)
ProjectLists == SeqsUpTo(Names \cup {"city"}, MaxCols)

AggregateLists == SeqsUpTo(Names \X AggregateFunction, MaxAggs)

----------------------------------------------------------------------------
(* Specifications *)

Idle ==
    /\ pc = 0
    /\ input_chunk = EmptyMap
    /\ chunk = EmptyMap

\* A query is translated and the plan executed over a loaded store.
Init ==
    /\ table \in CsvTables
    /\ query \in Queries
    /\ plan = <<>>
    /\ status = "translating"
    /\ Idle

Next ==
    \/ ParseSqlToPlan
    \/ ExecuteScan
    \/ ExecuteFilter
    \/ ExecuteAggregate
    \/ ExecuteProject

Spec == Init /\ [][Next]_vars

\* Hand-built plans over any store, as plan.rs's tests build them:
\* Scan -> Filter, Scan -> Project, Scan -> Project -> Project.
InitOperators ==
    /\ table \in Tables
    /\ query = NoQuery
    /\ plan \in {<<ScanNode, FilterNode(p)>> : p \in Predicates}
            \cup {<<ScanNode, ProjectNode(c)>> : c \in ProjectLists}
            \cup {<<ScanNode, ProjectNode(c), ProjectNode(c)>> : c \in ProjectLists}
    /\ status = "executing"
    /\ Idle

NextOperators ==
    \/ ExecuteScan
    \/ ExecuteFilter
    \/ ExecuteProject

SpecOperators == InitOperators /\ [][NextOperators]_vars

\* Hand-built Scan -> Aggregate plans over any store.
InitAggregate ==
    /\ table \in Tables
    /\ query = NoQuery
    /\ plan \in {<<ScanNode, AggregateNode(g, a)>> :
                    g \in NameLists, a \in AggregateLists}
    /\ status = "executing"
    /\ Idle

NextAggregate ==
    \/ ExecuteScan
    \/ ExecuteAggregate

SpecAggregate == InitAggregate /\ [][NextAggregate]_vars

----------------------------------------------------------------------------
(* Vocabulary of the properties *)

\* The node whose execute returned last.
Last == plan[pc]
LastReturned(kind) == pc >= 1 /\ plan[pc].kind = kind

\* The number of rows of a chunk whose columns all have the same length.
RowCount(ch) ==
    IF DOMAIN ch = {} THEN 0 ELSE Len(ch[CHOOSE c \in DOMAIN ch : TRUE])

Range(s) == {s[i] : i \in 1..Len(s)}

\* The k-th smallest member of a set of row indices, and the subsequence of s
\* at the indices of S, in increasing order.
NthOf(S, k) == CHOOSE i \in S : Cardinality({j \in S : j < i}) = k - 1
Subsequence(s, S) == [k \in 1..Cardinality(S) |-> s[NthOf(S, k)]]

RowOf(ch, i) == [c \in DOMAIN ch |-> ch[c][i]]

RECURSIVE SumOver(_, _)
SumOver(f, S) ==
    IF S = {} THEN 0
    ELSE LET x == CHOOSE x \in S : TRUE IN f[x] + SumOver(f, S \ {x})

----------------------------------------------------------------------------
(* Filter, Project, Scan *)

\* The rows of the child's chunk the predicate of the Filter holds for.
KeptRows ==
    {i \in 1..RowCount(input_chunk) :
        PredicateHolds(Last.predicate, RowOf(input_chunk, i))}

\* C1: when Filter.execute returns for a child chunk whose columns all have the
\* same length, the output has exactly the child's columns, each being the
\* order-preserving subsequence of the rows for which the predicate holds; so
\* it has at most the child's rows, an always-true predicate returns the
\* child's chunk and an always-false predicate returns every header with no row.
C1_FilterSubsequence ==
    (LastReturned("Filter") /\ EqualLength(input_chunk)) =>
        /\ DOMAIN chunk = DOMAIN input_chunk
        /\ \A c \in DOMAIN chunk :
              /\ chunk[c] = Subsequence(input_chunk[c], KeptRows)
              /\ Len(chunk[c]) <= Len(input_chunk[c])
        /\ Last.predicate = PredTrue => chunk = input_chunk
        /\ Last.predicate = PredFalse => \A c \in DOMAIN chunk : chunk[c] = <<>>

\* A Filter over two columns of two rows kept one row and dropped the other.
C1_Witness ==
    /\ LastReturned("Filter")
    /\ Last.predicate.kind = "eq"
    /\ EqualLength(input_chunk)
    /\ DOMAIN input_chunk = Names
    /\ RowCount(input_chunk) >= 2
    /\ KeptRows = {2}
    /\ \A c \in DOMAIN chunk : Len(chunk[c]) = 1

\* C9: Project.execute returns exactly the child's columns whose names occur in
\* the name list, values and order unchanged; a name the child lacks is left
\* out without error, a repeated name gives one column, and projecting the
\* result again on the same list changes nothing.
C9_ProjectRestricts ==
    LastReturned("Project") =>
        /\ DOMAIN chunk = DOMAIN input_chunk \cap Range(Last.columns)
        /\ \A c \in DOMAIN chunk : chunk[c] = input_chunk[c]
        /\ (pc = 3 /\ plan[2].kind = "Project"
                /\ plan[2].columns = plan[3].columns) => chunk = input_chunk

\* Project(Project(X, cols), cols) returned where cols names a column X lacks
\* and X has a column cols does not name.
C9_Witness ==
    /\ pc = 3
    /\ LastReturned("Project")
    /\ plan[2] = plan[3]
    /\ "city" \in Range(Last.columns)
    /\ DOMAIN table = Names
    /\ DOMAIN chunk = {"sales"}
    /\ Len(chunk["sales"]) = MaxRows
    /\ status = "done"

ScanCopiesTable ==
    LastReturned("Scan") =>
        /\ DOMAIN chunk = DOMAIN table
        /\ \A c \in DOMAIN table :
              /\ Len(chunk[c]) = Len(table[c])
              /\ \A i \in 1..Len(table[c]) : chunk[c][i] = table[c][i]

\* C10: Scan.execute returns a chunk with the store's column names, each column
\* equal to the store's value for value in row order, and no step of a query
\* changes the store.
C10_ScanIdentity == []ScanCopiesTable /\ [][table' = table]_vars

\* Scan returned a store of two columns of different, non-zero lengths.
C10_Witness ==
    /\ LastReturned("Scan")
    /\ DOMAIN table = Names
    /\ Len(table["region"]) = 1
    /\ Len(table["sales"]) = 2
    /\ chunk = table

\* C8: over a store whose columns differ in length, the execute of a Filter or
\* an Aggregate placed on Scan never returns: the query fails.
C8_UnequalStoreFails ==
    (/\ ~EqualLength(table)
     /\ Len(plan) >= 2
     /\ plan[2].kind \in {"Filter", "Aggregate"}) => pc < 2

----------------------------------------------------------------------------
(* Translation *)

\* parse_sql_to_plan returned a plan for the query.
Translated == query.kind = "Query" /\ plan # <<>>

WhereIsEquality ==
    /\ query.selection.kind = "BinaryOp"
    /\ query.selection.op = "Eq"
    /\ query.selection.left.kind = "Identifier"
    /\ query.selection.right.kind = "SingleQuotedString"

SelectedIdentifiers ==
    {query.projection[n].value :
        n \in {m \in 1..Len(query.projection) :
                  query.projection[m].kind = "Identifier"}}

\* The rows of the store whose value in column k is the text v.
MatchingRows(k, v) ==
    {i \in 1..RowCount(table) : table[k][i] = v}

\* C5: a translated SELECT is the cascade Scan, then a Filter iff the WHERE
\* clause is identifier = 'literal' (testing the row's value for equality with
\* the literal), then an Aggregate iff there is a GROUP BY, then a Project iff
\* the SELECT list has a plain identifier, on exactly those identifiers; and
\* executing SELECT identifiers WHERE k = 'v' returns exactly the selected
\* columns, holding in store order the rows whose k value is v.
C5_TranslationCascade ==
    Translated =>
        LET f == IF WhereIsEquality THEN 1 ELSE 0
            a == IF query.group_by # <<>> THEN 1 ELSE 0
            p == IF SelectedIdentifiers # {} THEN 1 ELSE 0
        IN  /\ Len(plan) = 1 + f + a + p
            /\ plan[1] = ScanNode
            /\ f = 1 =>
                  /\ plan[2].kind = "Filter"
                  /\ plan[2].predicate =
                        PredEq(query.selection.left.ident,
                               query.selection.right.val)
            /\ a = 1 =>
                  /\ plan[2 + f].kind = "Aggregate"
                  /\ Len(plan[2 + f].group_by) = Len(query.group_by)
            /\ p = 1 =>
                  /\ plan[Len(plan)].kind = "Project"
                  /\ Range(plan[Len(plan)].columns) = SelectedIdentifiers
            /\ (status = "done" /\ f = 1 /\ a = 0 /\ p = 1) =>
                  /\ DOMAIN chunk = SelectedIdentifiers \cap DOMAIN table
                  /\ \A c \in DOMAIN chunk :
                        chunk[c] =
                            Subsequence(table[c],
                                MatchingRows(query.selection.left.ident,
                                             query.selection.right.val))

\* SELECT sales FROM t WHERE region = 'E' over region = [E, W] was executed.
C5_Witness ==
    /\ status = "done"
    /\ query = SelectQuery(<<ItemIdentifier("sales")>>,
                   BinaryOp(Identifier("region"), "Eq",
                            SingleQuotedString(<<"E">>)),
                   <<>>)
    /\ table["region"] = <<<<"E">>, <<"W">>>>
    /\ Len(plan) = 3
    /\ DOMAIN chunk = {"sales"}
    /\ chunk["sales"] = <<table["sales"][1]>>

\* C6: a query with a WHERE clause of another shape than
\* identifier = 'string literal' gets no plan from the translation.
C6_UnsupportedWhereRejected ==
    (/\ query.kind = "Query"
     /\ query.selection.kind # "None"
     /\ ~WhereIsEquality) => plan = <<>>

HasAvg ==
    \E n \in 1..Len(query.projection) :
        /\ query.projection[n].kind = "Function"
        /\ query.projection[n].name \in {"avg", "AVG"}

\* C7: a query whose SELECT list holds an avg(...) call gets no plan from the
\* translation, with or without GROUP BY.
C7_AvgRejected ==
    (query.kind = "Query" /\ HasAvg) => plan = <<>>

----------------------------------------------------------------------------
(* Aggregate *)

GroupBy == plan[pc].group_by
Aggregates == plan[pc].aggregates

\* Aggregate.execute returned for a child chunk with columns of one length
\* that has every referenced column.
AggregateReturned ==
    /\ LastReturned("Aggregate")
    /\ EqualLength(input_chunk)
    /\ Range(GroupBy) \cup AggregateNames(Aggregates) \subseteq DOMAIN input_chunk

\* The group key of row i of the child, and the rows of the child with a key.
KeyOfRow(i) == [j \in 1..Len(GroupBy) |-> input_chunk[GroupBy[j]][i]]
RowsOfKey(key) == {i \in 1..RowCount(input_chunk) : KeyOfRow(i) = key}
InputKeys == {KeyOfRow(i) : i \in 1..RowCount(input_chunk)}

\* Every output column has n rows.
OutputRows(n) == \A c \in DOMAIN chunk : Len(chunk[c]) = n

\* The group key read off row r of the output.
KeyOfOutput(r) == [j \in 1..Len(GroupBy) |-> chunk[GroupBy[j]][r]]

\* The value of text s as Sum reads it.
Parsed(s) == IF ParseF64(s).ok THEN ParseF64(s).v ELSE 0

\* C2: for a Count pair on column c, the emitted values of c add up to the
\* child's row count, and the value in each output row is the number of child
\* rows whose key is that row's key, whatever else is configured.
C2_CountLaw ==
    AggregateReturned =>
        \A j \in 1..Len(Aggregates) :
            Aggregates[j][2] = "Count" =>
                LET c == Aggregates[j][1]
                IN  /\ OutputRows(Len(chunk[c]))
                    /\ SumOver([r \in 1..Len(chunk[c]) |-> Parsed(chunk[c][r])],
                               1..Len(chunk[c])) = RowCount(input_chunk)
                    /\ \A r \in 1..Len(chunk[c]) :
                          chunk[c][r] =
                            F64ToString(Cardinality(RowsOfKey(KeyOfOutput(r))))

\* C3: for a Sum pair on column c, the value in each output row is the sum of
\* the values of c that parse as numbers over the child rows whose key is that
\* row's key, the others counting 0.
C3_SumLaw ==
    AggregateReturned =>
        \A j \in 1..Len(Aggregates) :
            Aggregates[j][2] = "Sum" =>
                LET c == Aggregates[j][1]
                IN  /\ OutputRows(Len(chunk[c]))
                    /\ \A r \in 1..Len(chunk[c]) :
                          chunk[c][r] =
                            F64ToString(
                                SumOver([i \in 1..RowCount(input_chunk) |->
                                            Parsed(input_chunk[c][i])],
                                        RowsOfKey(KeyOfOutput(r))))

\* C4: every output column has as many rows as the child has distinct group
\* keys, and the rows of the output read, each once, the keys of the child.
C4_ResultChunkInvariant ==
    AggregateReturned =>
        /\ OutputRows(Cardinality(InputKeys))
        /\ \A r \in 1..Cardinality(InputKeys) : KeyOfOutput(r) \in InputKeys
        /\ \A r1, r2 \in 1..Cardinality(InputKeys) :
              KeyOfOutput(r1) = KeyOfOutput(r2) => r1 = r2

====
